---- MODULE Spec2Model ----
(***************************************************************************)
(* Model of scrape-bahn: the cheapest-ticket-combination solver            *)
(* (find_cheapest_tickets.py) with its batch driver, the scraper and its   *)
(* TSV artifact writer (scrape_bahn_prices.py) and the persistent debug    *)
(* browser (debug_browser.py).                                             *)
(*                                                                         *)
(* Conventions                                                             *)
(*  - A Python list is a TLA+ sequence; At(s, i) is the Python s[i].       *)
(*  - Optional[float] is a sequence of length <= 1: None is <<>>, a fare   *)
(*    x is <<x>>.                                                          *)
(*  - In the solver and the report a fare is an amount with two decimals,  *)
(*    held in cents (an integer).  float('inf') is the record Inf.         *)
(*  - A call either returns or raises: Ret(v) / Raise(exc).                *)
(*  - Each specification runs one program; the variables of the other     *)
(*    programs keep their initial values.                                  *)
(***************************************************************************)
EXTENDS Integers, Sequences, FiniteSets, TLC

VARIABLES
    pc,         \* position of the run being modelled
    stations,   \* List[str]: station names in itinerary order
    times,      \* List[str]: arrival times
    prices,     \* List[List[Optional[float]]]: the fare matrix
    route,      \* what find_cheapest_route returned (or NotYet)
    locals,     \* dp and prev of that call when it returned (or NotYet)
    report,     \* what analyze_tickets printed and how it ended (or NotYet)
    artifact,   \* the rows of the TSV artifact, as csv.reader yields them
    parsed,     \* what parse_tsv_file returned or raised (or NotYet)
    argv,       \* sys.argv[1:] of the batch run: the files to analyse
    log,        \* per processed path: its index and how its analysis ended
    page,       \* what bahn.de shows the scraper: the connection and its fares
    args,       \* the parsed command line of the scraper
    context,    \* the Playwright browser context and the close() calls on it
    exit_code,  \* what main of a browser program returned or raised (or NotYet)
    shutdown_flag,  \* debug_browser.py's global
    signals     \* the signals delivered to debug_browser.py, in order

vars == <<pc, stations, times, prices, route, locals, report,
          artifact, parsed, argv, log,
          page, args, context, exit_code, shutdown_flag, signals>>

fileVars == <<artifact, parsed>>
batchVars == <<argv, log>>
browserVars == <<page, args, context, exit_code, shutdown_flag, signals>>

----------------------------------------------------------------------------
(* Bounds of the model *)

\* largest number of stations of an in-memory itinerary
MaxN == 3
\* largest fare, in cents, of an in-memory fare matrix
MaxFare == 2
\* largest number of station columns of an artifact
MaxCols == 2
\* longest text of the fare cell an artifact is probed with
MaxCellLen == 3
\* longest station name of an itinerary that is written and read back
MaxNameLen == 1
\* largest number of paths on the command line
MaxFiles == 2

----------------------------------------------------------------------------
(* Python values *)

None == <<>>
Some(x) == <<x>>
IsNone(o) == o = <<>>
Val(o) == o[1]

\* Python s[i] for 0 <= i < len(s)
At(s, i) == s[i + 1]

NotYet == [kind |-> "notyet"]
Ret(v) == [kind |-> "return", val |-> v]
Raise(e) == [kind |-> "raise", exc |-> e]

\* float('inf') and finite floats, as find_cheapest_route mixes them
Inf == [inf |-> TRUE, v |-> 0]
Fin(x) == [inf |-> FALSE, v |-> x]
\* a + b where a may be inf and b is finite
FAdd(a, b) == IF a.inf THEN Inf ELSE Fin(a.v + b)
\* a < b on floats
FLess(a, b) == IF a.inf THEN FALSE ELSE IF b.inf THEN TRUE ELSE a.v < b.v

\* [x] * n
Repeat(x, n) == [k \in 1..n |-> x]
\* s with Python index i set to x
SetAt(s, i, x) == [s EXCEPT ![i + 1] = x]
\* list.reverse()
Reverse(s) == [k \in 1..Len(s) |-> s[Len(s) + 1 - k]]

\* no browser program runs: no page, no context, nothing returned, no signal
NoPage == [segments |-> <<>>, tariff |-> "none"]
NoArgs == [connect |-> FALSE]
NoContext == [state |-> "none", launched |-> FALSE, closes |-> 0]
NoBrowser ==
    /\ page = NoPage
    /\ args = NoArgs
    /\ context = NoContext
    /\ exit_code = NotYet
    /\ shutdown_flag = FALSE
    /\ signals = <<>>

----------------------------------------------------------------------------
(* find_cheapest_route *)

\* fault variant of Relax: "cost <= dp[i]", a later predecessor wins a tie
RelaxNonStrict(st, p, i, j) ==
    IF ~IsNone(At(At(p, j), i)) /\ At(st.dp, j) # Inf
    THEN LET cost == FAdd(At(st.dp, j), Val(At(At(p, j), i)))
         IN IF ~FLess(At(st.dp, i), cost)
            THEN [dp |-> SetAt(st.dp, i, cost), prev |-> SetAt(st.prev, i, j)]
            ELSE st
    ELSE st

\* fault variant of Relax: no comparison, the last usable predecessor wins
RelaxLastWins(st, p, i, j) ==
    IF ~IsNone(At(At(p, j), i)) /\ At(st.dp, j) # Inf
    THEN LET cost == FAdd(At(st.dp, j), Val(At(At(p, j), i)))
         IN [dp |-> SetAt(st.dp, i, cost), prev |-> SetAt(st.prev, i, j)]
    ELSE st

\* fault variant of Relax: the test dp[j] != inf is missing and inf counts as 0
RelaxIgnoresReach(st, p, i, j) ==
    IF ~IsNone(At(At(p, j), i))
    THEN LET cost == Fin(At(st.dp, j).v + Val(At(At(p, j), i)))
         IN IF FLess(cost, At(st.dp, i))
            THEN [dp |-> SetAt(st.dp, i, cost), prev |-> SetAt(st.prev, i, j)]
            ELSE st
    ELSE st

\* fault variant of Relax: the fare is read at prices[i][j]
RelaxTransposed(st, p, i, j) ==
    IF ~IsNone(At(At(p, i), j)) /\ At(st.dp, j) # Inf
    THEN LET cost == FAdd(At(st.dp, j), Val(At(At(p, i), j)))
         IN IF FLess(cost, At(st.dp, i))
            THEN [dp |-> SetAt(st.dp, i, cost), prev |-> SetAt(st.prev, i, j)]
            ELSE st
    ELSE st

\* lines 76-80, the body of the inner loop: try j as the predecessor of i
Relax(st, p, i, j) ==
    IF ~IsNone(At(At(p, j), i)) /\ At(st.dp, j) # Inf
    THEN LET cost == FAdd(At(st.dp, j), Val(At(At(p, j), i)))
         IN IF FLess(cost, At(st.dp, i))
            THEN [dp |-> SetAt(st.dp, i, cost), prev |-> SetAt(st.prev, i, j)]
            ELSE st
    ELSE st

RECURSIVE InnerLoop(_, _, _, _)
\* for j in range(i), from j on
InnerLoop(st, p, i, j) ==
    IF j >= i THEN st ELSE InnerLoop(Relax(st, p, i, j), p, i, j + 1)

\* fault variant of InnerStart: station 0 is not tried for later stations
InnerStartSkipsFirst(i) == IF i > 1 THEN 1 ELSE 0

\* range(i): the first predecessor tried for station i
InnerStart(i) == 0

RECURSIVE OuterLoop(_, _, _, _)
\* for i in range(1, n), from i on
OuterLoop(st, p, n, i) ==
    IF i >= n THEN st
    ELSE OuterLoop(InnerLoop(st, p, i, InnerStart(i)), p, n, i + 1)

RECURSIVE WalkBack(_, _, _)
\* while prev[current] != -1: path.append((prev[current], current))
WalkBack(prev, current, path) ==
    IF At(prev, current) = -1 THEN path
    ELSE WalkBack(prev, At(prev, current),
                  Append(path, <<At(prev, current), current>>))

\* fault variant of PathOrder: the path is left in walking order
PathOrderNoReverse(path) == path

\* path.reverse()
PathOrder(path) == Reverse(path)

\* dp and prev after the loops of lines 69-80 (n >= 1)
DpRun(s, p) ==
    LET n == Len(s)
        st0 == [dp |-> SetAt(Repeat(Inf, n), 0, Fin(0)),
                prev |-> Repeat(-1, n)]
    IN OuterLoop(st0, p, n, 1)

find_cheapest_route(s, p) ==
    LET n == Len(s)
    IN IF n = 0
       THEN Raise("IndexError")                \* dp[0] = 0 on an empty list
       ELSE LET st == DpRun(s, p)
            IN IF At(st.dp, n - 1) = Inf
               THEN Ret([min_cost |-> Inf, path |-> <<>>])
               ELSE Ret([min_cost |-> At(st.dp, n - 1),
                         path |-> PathOrder(WalkBack(st.prev, n - 1, <<>>))])

----------------------------------------------------------------------------
(* format_price: f"{price:.2f}".replace('.', ','), as a list of characters *)

DigitChar(d) == At(<<"0", "1", "2", "3", "4", "5", "6", "7", "8", "9">>, d)

RECURSIVE Digits(_)
\* the decimal digits of a natural number
Digits(n) == IF n < 10 THEN <<DigitChar(n)>>
             ELSE Append(Digits(n \div 10), DigitChar(n % 10))

\* the separator format_price and write_tsv_file put in place of '.'
DecimalSeparator == ","

\* cents is the amount in cents
FormatCents(cents) ==
    LET a == IF cents < 0 THEN -cents ELSE cents
    IN (IF cents < 0 THEN <<"-">> ELSE <<>>)
       \o Digits(a \div 100) \o <<DecimalSeparator>>
       \o <<DigitChar((a % 100) \div 10), DigitChar(a % 10)>>

format_price(price) == FormatCents(price)

----------------------------------------------------------------------------
(* Text: a str is the list of its characters                               *)

Whitespace == {" "}

RECURSIVE LStrip(_)
LStrip(s) == IF s # <<>> /\ Head(s) \in Whitespace THEN LStrip(Tail(s)) ELSE s

RECURSIVE RStrip(_)
RStrip(s) ==
    IF s # <<>> /\ s[Len(s)] \in Whitespace
    THEN RStrip(SubSeq(s, 1, Len(s) - 1)) ELSE s

\* str.strip()
Strip(s) == RStrip(LStrip(s))

\* str.replace(a, b) for single characters
Replace(s, a, b) == [k \in 1..Len(s) |-> IF s[k] = a THEN b ELSE s[k]]

DigitChars == {DigitChar(d) : d \in 0..9}
DigitValue(c) == CHOOSE d \in 0..9 : DigitChar(d) = c

RECURSIVE NatOf(_)
\* the number a list of digits denotes (0 for the empty list)
NatOf(ds) ==
    IF ds = <<>> THEN 0
    ELSE 10 * NatOf(SubSeq(ds, 1, Len(ds) - 1)) + DigitValue(ds[Len(ds)])

RECURSIVE Pow10(_)
Pow10(k) == IF k = 0 THEN 1 ELSE 10 * Pow10(k - 1)

\* A parsed float: the decimal number m / 10^k with the fewest decimals k.
RECURSIVE Decimal(_, _)
Decimal(m, k) ==
    IF k > 0 /\ m % 10 = 0 THEN Decimal(m \div 10, k - 1) ELSE [m |-> m, k |-> k]

\* float(s) for s over digits, '.', '+', '-', blanks and characters no float
\* literal holds: Ret(number) or Raise("ValueError").  Exponents, inf, nan
\* and '_' are outside the alphabet of the model.
float(s) ==
    LET t == Strip(s)
        signed == t # <<>> /\ Head(t) \in {"-", "+"}
        body == IF signed THEN Tail(t) ELSE t
        dots == {k \in 1..Len(body) : body[k] = "."}
        dot == IF dots = {} THEN Len(body) + 1 ELSE CHOOSE k \in dots : TRUE
        int == SubSeq(body, 1, dot - 1)
        frac == SubSeq(body, dot + 1, Len(body))
        mag == NatOf(int \o frac)
    IN IF /\ \A k \in 1..Len(body) : body[k] \in DigitChars \cup {"."}
          /\ Cardinality(dots) <= 1
          /\ Len(int) + Len(frac) >= 1
       THEN Ret(Decimal(IF signed /\ Head(t) = "-" THEN -mag ELSE mag, Len(frac)))
       ELSE Raise("ValueError")

\* the same amount in cents, for a number with at most two decimals
ToCents(d) == d.m * Pow10(2 - d.k)
\* the number an amount in cents is
FromCents(c) == Decimal(c, 2)

----------------------------------------------------------------------------
(* parse_tsv_file, from the rows csv.reader yields                         *)

\* seq[2:]
From2(row) == SubSeq(row, 3, Len(row))

\* [cell.strip() for cell in row[2:] if cell.strip()]
HeaderCells(row) ==
    LET stripped == [k \in 1..Len(From2(row)) |-> Strip(From2(row)[k])]
    IN SelectSeq(stripped, LAMBDA c : c # <<>>)

\* fault variant of IsPlaceholder: '0' is not a placeholder
IsPlaceholderNoZero(price_str) == price_str = <<>> \/ price_str = <<"?">>

\* line 45: the texts that mean "no fare"
IsPlaceholder(price_str) ==
    price_str = <<>> \/ price_str = <<"?">> \/ price_str = <<"0">>

\* fault variant of ParseCell: the ValueError handler stores 0.0
ParseCellZeroOnError(cell) ==
    LET price_str == Strip(cell)
    IN IF IsPlaceholder(price_str) THEN None
       ELSE LET f == float(Replace(price_str, ",", "."))
            IN IF f.kind = "return" THEN Some(f.val) ELSE Some(Decimal(0, 0))

\* lines 44-51: the fare a cell's text stands for
ParseCell(cell) ==
    LET price_str == Strip(cell)
    IN IF IsPlaceholder(price_str) THEN None
       ELSE LET f == float(Replace(price_str, ",", "."))
            IN IF f.kind = "return" THEN Some(f.val) ELSE None

\* lines 36-51: prices[i][j]
ParsedFare(rows, i, j) ==
    IF j >= i /\ i + 2 < Len(rows) /\ 2 + j < Len(At(rows, i + 2))
    THEN ParseCell(At(At(rows, i + 2), 2 + j))
    ELSE None

\* fault variant of HeaderRowMissing: a missing station row is not noticed
HeaderRowMissingOnlyIfEmpty(rows) == Len(rows) < 1

\* lines 26 and 29: rows[0] or rows[1] is out of range
HeaderRowMissing(rows) == Len(rows) < 1 \/ Len(rows) < 2

parse_rows(rows) ==
    IF HeaderRowMissing(rows)
    THEN Raise("IndexError")
    ELSE LET t == HeaderCells(At(rows, 0))
             s == IF Len(rows) >= 2 THEN HeaderCells(At(rows, 1)) ELSE <<>>
             n == Len(s)
         IN Ret([stations |-> s, times |-> t,
                 prices |-> [r \in 1..n |-> [c \in 1..n |->
                                ParsedFare(rows, r - 1, c - 1)]]])

\* a file is unreadable (open() raises) or holds rows
Unreadable == [readable |-> FALSE, rows |-> <<>>]
FileOf(rows) == [readable |-> TRUE, rows |-> rows]

parse_tsv_file(file) ==
    IF ~file.readable THEN Raise("FileNotFoundError") ELSE parse_rows(file.rows)

----------------------------------------------------------------------------
(* write_tsv_file, and the csv module between the rows and the file        *)

\* lines 482-489: the cell of column j in the row of station i (j >= i)
WrittenCell(p, i, j) ==
    IF i = j THEN <<"0">>
    ELSE IF ~IsNone(At(At(p, i), j)) THEN FormatCents(Val(At(At(p, i), j)))
    ELSE <<"?">>

\* lines 467-490: the rows handed to writer.writerow
write_rows(date, train, s, t, p) ==
    IF Len(t) < Len(s)
    THEN Raise("IndexError")                  \* times[i]
    ELSE Ret(<<(<<date, train>> \o t), (<<(<<>>), (<<>>)>> \o s)>>
             \o [r \in 1..Len(s) |->
                    <<t[r], s[r]>> \o Repeat(<<>>, r - 1)
                    \o [c \in 1..(Len(s) - r + 1) |-> WrittenCell(p, r - 1, r + c - 2)]])

Tab == "\t"

RECURSIVE JoinTab(_)
\* writer.writerow on cells that need no quoting: the line without its end
JoinTab(row) ==
    IF row = <<>> THEN <<>>
    ELSE IF Len(row) = 1 THEN row[1]
    ELSE row[1] \o <<Tab>> \o JoinTab(Tail(row))

RECURSIVE SplitTab(_, _)
\* the fields of a line; cur is the field being read
SplitTab(line, cur) ==
    IF line = <<>> THEN <<cur>>
    ELSE IF Head(line) = Tab THEN <<cur>> \o SplitTab(Tail(line), <<>>)
    ELSE SplitTab(Tail(line), Append(cur, Head(line)))

\* csv.writer(f, delimiter='\t'): the lines of the file
CsvWrite(rows) == [k \in 1..Len(rows) |-> JoinTab(rows[k])]
\* list(csv.reader(f, delimiter='\t')): an empty line is an empty row
CsvRead(lines) ==
    [k \in 1..Len(lines) |-> IF lines[k] = <<>> THEN <<>> ELSE SplitTab(lines[k], <<>>)]

----------------------------------------------------------------------------
(* analyze_tickets, from the parsed artifact on (lines 110-153)            *)
(* The report is the list of printed lines and the way the call ended.     *)

Printed(lines) == [out |-> lines, kind |-> "return", exc |-> ""]
Failed(lines, e) == [out |-> lines, kind |-> "raise", exc |-> e]

\* f"{savings_percent:.1f}": tenths of a percent
PercentTenths(savings, direct) == (2000 * savings + direct) \div (2 * direct)

\* lines 132-144; oneCentAbove: whether the float difference of two amounts
\* one cent apart compares above 0.01 (it does for some amounts and not for
\* others)
SavingsLines(direct, min_cost, oneCentAbove) ==
    LET savings == direct - min_cost
        above == savings > 1 \/ (savings = 1 /\ oneCentAbove)
        below == savings < -1 \/ (savings = -1 /\ oneCentAbove)
    IN IF above
       THEN <<[line |-> "savings", amount |-> format_price(savings),
               percent |-> PercentTenths(savings, direct)]>>
       ELSE IF below
       THEN <<[line |-> "more_expensive", amount |-> format_price(-savings)]>>
       ELSE <<[line |-> "same_price"]>>

\* lines 149-151
TicketLines(s, p, path) ==
    [k \in 1..Len(path) |->
        [line |-> "ticket", nr |-> k,
         from |-> At(s, path[k][1]), to |-> At(s, path[k][2]),
         price |-> format_price(Val(At(At(p, path[k][1]), path[k][2])))]]

\* lines 146-153
Breakdown(s, p, path, lines) ==
    IF Len(path) > 1 \/ (Len(path) = 1 /\ path[1][1] # 0)
    THEN Printed(lines \o <<[line |-> "tickets_to_buy"]>> \o TicketLines(s, p, path))
    ELSE IF Len(path) = 0
    THEN Failed(lines, "IndexError")            \* path[0] on an empty path
    ELSE IF path[1][2] # Len(s) - 1
    THEN Printed(lines \o <<[line |-> "tickets_to_buy"]>> \o TicketLines(s, p, path))
    ELSE Printed(lines \o <<[line |-> "single_direct"]>>)

\* fault variant of AfterRoute: a missing direct fare ends the report
AfterRouteStopsWithoutDirect(s, p, direct, r, lines, oneCentAbove) ==
    IF r.min_cost = Inf \/ direct = Inf
    THEN Printed(lines \o <<[line |-> "no_route"]>>)
    ELSE LET l2 == lines \o <<[line |-> "cheapest", cost |-> format_price(r.min_cost.v)]>>
         IN IF direct.v = 0
            THEN Failed(l2, "ZeroDivisionError")
            ELSE Breakdown(s, p, r.path,
                           l2 \o SavingsLines(direct.v, r.min_cost.v, oneCentAbove))

\* lines 126-153, after find_cheapest_route returned r
AfterRoute(s, p, direct, r, lines, oneCentAbove) ==
    IF r.min_cost = Inf
    THEN Printed(lines \o <<[line |-> "no_route"]>>)
    ELSE LET l2 == lines \o <<[line |-> "cheapest", cost |-> format_price(r.min_cost.v)]>>
         IN IF direct # Inf
            THEN IF direct.v = 0
                 THEN Failed(l2, "ZeroDivisionError")   \* savings / direct_price
                 ELSE Breakdown(s, p, r.path,
                                l2 \o SavingsLines(direct.v, r.min_cost.v, oneCentAbove))
            ELSE Breakdown(s, p, r.path, l2)

\* lines 110-153; lines holds what was printed before (the banner)
AnalyzeFrom(s, t, p, lines, oneCentAbove) ==
    IF Len(s) = 0
    THEN Failed(lines, "IndexError")            \* stations[0]
    ELSE LET l1 == lines \o <<[line |-> "route", from |-> At(s, 0), to |-> At(s, Len(s) - 1)],
                              [line |-> "count", n |-> Len(s)],
                              [line |-> "stations", names |-> s]>>
             cell == At(At(p, 0), Len(s) - 1)   \* prices[0][-1]
             direct == IF IsNone(cell) THEN Inf ELSE Fin(Val(cell))
             l2 == l1 \o (IF IsNone(cell)
                          THEN <<[line |-> "no_direct"]>>
                          ELSE <<[line |-> "direct", price |-> format_price(Val(cell))]>>)
         IN AfterRoute(s, p, direct, find_cheapest_route(s, p).val, l2, oneCentAbove)

----------------------------------------------------------------------------
(* Spec: the solver and the report on in-memory itineraries                *)

StationNames == <<(<<"A">>), (<<"B">>), (<<"C">>), (<<"D">>), (<<"E">>), (<<"F">>)>>

\* the pairs a ticket can be bought for
Upper(n) == {pr \in (0..(n - 1)) \X (0..(n - 1)) : pr[1] < pr[2]}

Fares == {None} \cup {Some(x) : x \in 0..MaxFare}

\* the matrix create_price_matrix builds: fares above the diagonal only
Matrix(n, f) ==
    [r \in 1..n |-> [c \in 1..n |-> IF r < c THEN f[<<r - 1, c - 1>>] ELSE None]]

Matrices(n) == {Matrix(n, f) : f \in [Upper(n) -> Fares]}

Init ==
    /\ pc = "parsed"
    /\ \E n \in 2..MaxN :
          /\ stations = SubSeq(StationNames, 1, n)
          /\ times = [k \in 1..n |-> <<DigitChar(k)>>]
          /\ prices \in Matrices(n)
    /\ route = NotYet
    /\ locals = NotYet
    /\ report = NotYet
    /\ artifact = <<>>
    /\ parsed = NotYet
    /\ argv = <<>>
    /\ log = <<>>
    /\ NoBrowser

\* a call of find_cheapest_route(stations, prices)
CallFindCheapestRoute ==
    /\ route = NotYet
    /\ route' = find_cheapest_route(stations, prices)
    /\ locals' = DpRun(stations, prices)
    /\ UNCHANGED <<pc, stations, times, prices, report, fileVars, batchVars, browserVars>>

\* the rest of analyze_tickets, after parse_tsv_file returned
CallAnalyze ==
    /\ report = NotYet
    /\ \E oneCentAbove \in BOOLEAN :
          report' = AnalyzeFrom(stations, times, prices, <<>>, oneCentAbove)
    /\ UNCHANGED <<pc, stations, times, prices, route, locals, fileVars, batchVars, browserVars>>

Next == CallFindCheapestRoute \/ CallAnalyze

Spec == Init /\ [][Next]_vars

----------------------------------------------------------------------------
(* SpecTriangle: the solver and the report on matrices whose diagonal and  *)
(* lower triangle are populated too                                        *)

TriangleFares == {None, Some(1), Some(2)}

\* the positions on and below the diagonal
Lower(n) == {pr \in (0..(n - 1)) \X (0..(n - 1)) : pr[1] >= pr[2]}

\* what the diagonal and the lower triangle hold: one value everywhere, the
\* mirror image of the upper triangle, or one value at one position
Fills(n) ==
    [kind : {"all"}, v : TriangleFares \cup {Some(0)}, at : {<<0, 0>>}]
    \cup [kind : {"mirror"}, v : {None}, at : {<<0, 0>>}]
    \cup [kind : {"one"}, v : TriangleFares \ {None}, at : Lower(n)]

FullMatrix(n, f, fill) ==
    [r \in 1..n |-> [c \in 1..n |->
        IF r < c THEN f[<<r - 1, c - 1>>]
        ELSE IF fill.kind = "all" THEN fill.v
        ELSE IF fill.kind = "mirror" THEN (IF r = c THEN None ELSE f[<<c - 1, r - 1>>])
        ELSE IF fill.at = <<r - 1, c - 1>> THEN fill.v ELSE None]]

InitTriangle ==
    /\ pc = "parsed"
    /\ \E n \in 2..MaxN :
          /\ stations = SubSeq(StationNames, 1, n)
          /\ times = [k \in 1..n |-> <<DigitChar(k)>>]
          /\ \E f \in [Upper(n) -> TriangleFares], fill \in Fills(n) :
                prices = FullMatrix(n, f, fill)
    /\ route = NotYet
    /\ locals = NotYet
    /\ report = NotYet
    /\ artifact = <<>>
    /\ parsed = NotYet
    /\ argv = <<>>
    /\ log = <<>>
    /\ NoBrowser

NextTriangle == CallFindCheapestRoute \/ CallAnalyze

SpecTriangle == InitTriangle /\ [][NextTriangle]_vars

----------------------------------------------------------------------------
(* Chains of tickets, defined without reference to the dynamic program     *)

N == Len(stations)
Fare(i, j) == At(At(prices, i), j)

RECURSIVE Ascending(_)
\* the elements of a finite set of numbers in ascending order
Ascending(S) ==
    IF S = {} THEN <<>>
    ELSE LET m == CHOOSE x \in S : \A y \in S : x <= y
         IN <<m>> \o Ascending(S \ {m})

\* every 0 = s0 < s1 < ... < sk = last
ChainsTo(last) ==
    IF last = 0 THEN {<<0>>}
    ELSE {<<0>> \o Ascending(S) \o <<last>> : S \in SUBSET (1..(last - 1))}

ChainDefined(c) == \A k \in 1..(Len(c) - 1) : ~IsNone(Fare(c[k], c[k + 1]))

RECURSIVE ChainCostUpTo(_, _)
\* the sum of the fares of the first k segments of chain c
ChainCostUpTo(c, k) ==
    IF k = 0 THEN 0 ELSE ChainCostUpTo(c, k - 1) + Val(Fare(c[k], c[k + 1]))

ChainCost(c) == ChainCostUpTo(c, Len(c) - 1)

ValidChainsTo(last) == {c \in ChainsTo(last) : ChainDefined(c)}

\* the cheapest way to station last; only used where ValidChainsTo(last) # {}
CheapestTo(last) ==
    LET costs == {ChainCost(c) : c \in ValidChainsTo(last)}
    IN CHOOSE m \in costs : \A x \in costs : m <= x

OnlyAdjacentFaresOfOne ==
    \A pr \in Upper(N) :
        Fare(pr[1], pr[2]) = (IF pr[2] = pr[1] + 1 THEN Some(1) ELSE None)

OnlyDirectFare ==
    /\ ~IsNone(Fare(0, N - 1))
    /\ \A pr \in Upper(N) : pr # <<0, N - 1>> => IsNone(Fare(pr[1], pr[2]))

Solved == route.kind = "return"
Reported == report # NotYet

----------------------------------------------------------------------------
(* Properties of the solver and the report                                 *)

\* C1: whenever some chain of defined fares leads from station 0 to station
\* n-1, min_cost is the minimum over all such chains of the sum of the
\* chain's fares; with only fare(i,i+1) = 1 defined, min_cost = n-1.
C1_MinCostIsCheapestChain ==
    Solved =>
        /\ ValidChainsTo(N - 1) # {} =>
              route.val.min_cost = Fin(CheapestTo(N - 1))
        /\ OnlyAdjacentFaresOfOne => route.val.min_cost = Fin(N - 1)

\* a multi-ticket chain beats a dearer direct ticket and a dearer other chain
C1_Witness ==
    /\ Solved
    /\ Cardinality({ChainCost(c) : c \in ValidChainsTo(N - 1)}) >= 2
    /\ ~IsNone(Fare(0, N - 1))
    /\ route.val.min_cost.v < Val(Fare(0, N - 1))

\* C2: a finite min_cost comes with a non-empty path of segments (a,b), a < b,
\* from 0 to n-1, each starting where the previous one ended, each with a
\* defined fare, the fares summing to min_cost; with only fare(0,n-1) defined
\* the path is [(0,n-1)].
C2_PathRealizesMinCost ==
    (Solved /\ route.val.min_cost # Inf) =>
        LET path == route.val.path
        IN /\ Len(path) >= 1
           /\ path[1][1] = 0
           /\ path[Len(path)][2] = N - 1
           /\ \A k \in 1..Len(path) :
                 /\ path[k][1] < path[k][2]
                 /\ ~IsNone(Fare(path[k][1], path[k][2]))
                 /\ k > 1 => path[k][1] = path[k - 1][2]
           /\ ChainCost(<<0>> \o [k \in 1..Len(path) |-> path[k][2]])
                 = route.val.min_cost.v
           /\ OnlyDirectFare => path = <<(<<0, N - 1>>)>>

C2_Witness ==
    /\ Solved
    /\ route.val.min_cost # Inf
    /\ Len(route.val.path) >= 2

\* C3: whenever fare(0,n-1) is defined, min_cost <= fare(0,n-1).
C3_NotDearerThanDirect ==
    (Solved /\ ~IsNone(Fare(0, N - 1))) =>
        /\ route.val.min_cost # Inf
        /\ route.val.min_cost.v <= Val(Fare(0, N - 1))

\* the direct fare is the cheapest although another chain exists
C3_Witness ==
    /\ Solved
    /\ ~IsNone(Fare(0, N - 1))
    /\ Cardinality(ValidChainsTo(N - 1)) >= 2
    /\ route.val.min_cost.v = Val(Fare(0, N - 1))

LineKinds(r) == {r.out[k].line : k \in 1..Len(r.out)}

\* C4: the solver returns (inf, []) exactly when no chain of defined fares
\* connects station 0 to station n-1, and then analyze_tickets prints the
\* no-route message and returns without a cost or a ticket list.
C4_NoRouteIffNoChain ==
    /\ Solved =>
          /\ (route.val.min_cost = Inf /\ route.val.path = <<>>)
                <=> ValidChainsTo(N - 1) = {}
          /\ route.val.min_cost = Inf <=> route.val.path = <<>>
    /\ (Reported /\ ValidChainsTo(N - 1) = {}) =>
          /\ report.kind = "return"
          /\ report.out[Len(report.out)].line = "no_route"
          /\ LineKinds(report)
                \cap {"cheapest", "savings", "more_expensive", "same_price",
                      "tickets_to_buy", "ticket", "single_direct"} = {}
    /\ (Reported /\ ValidChainsTo(N - 1) # {}) => "no_route" \notin LineKinds(report)

\* no route although some fares are defined
C4_Witness ==
    /\ Solved
    /\ Reported
    /\ ValidChainsTo(N - 1) = {}
    /\ \E pr \in Upper(N) : ~IsNone(Fare(pr[1], pr[2]))

TicketLinesOf(r) == SelectSeq(r.out, LAMBDA l : l.line = "ticket")

\* C5: with fare(0,n-1) undefined and a chain of defined fares from 0 to n-1,
\* the solver returns the cheapest chain and analyze_tickets reports its cost
\* and its tickets.
C5_UndefinedDirectDoesNotStopSearch ==
    (IsNone(Fare(0, N - 1)) /\ ValidChainsTo(N - 1) # {}) =>
        /\ Solved =>
              /\ route.val.min_cost = Fin(CheapestTo(N - 1))
              /\ Len(route.val.path) >= 2
        /\ Reported =>
              /\ report.kind = "return"
              /\ \E k \in 1..Len(report.out) :
                    /\ report.out[k].line = "cheapest"
                    /\ report.out[k].cost = FormatCents(CheapestTo(N - 1))
              /\ "tickets_to_buy" \in LineKinds(report)
              /\ LET tl == TicketLinesOf(report)
                 IN /\ Len(tl) >= 2
                    /\ tl[1].from = stations[1]
                    /\ tl[Len(tl)].to = stations[N]
                    /\ \A k \in 2..Len(tl) : tl[k].from = tl[k - 1].to

C5_Witness ==
    /\ IsNone(Fare(0, N - 1))
    /\ ValidChainsTo(N - 1) # {}
    /\ Solved
    /\ Reported

\* the predecessors j of i that can be used, and what each yields
Usable(i) == {j \in 0..(i - 1) : ~IsNone(Fare(j, i)) /\ ValidChainsTo(j) # {}}
Yield(j, i) == CheapestTo(j) + Val(Fare(j, i))
Minimizers(i) == {j \in Usable(i) : \A k \in Usable(i) : Yield(j, i) <= Yield(k, i)}

\* C6: for every station i the recorded predecessor is the smallest j among
\* those yielding the minimal cost(j) + fare(j,i) (none recorded when no j is
\* usable), and the last ticket of the returned path starts there.
C6_TieKeepsFirstPredecessor ==
    Solved =>
        /\ \A i \in 1..(N - 1) :
              At(locals.prev, i) =
                 (IF Usable(i) = {} THEN -1
                  ELSE CHOOSE j \in Minimizers(i) : \A k \in Minimizers(i) : j <= k)
        /\ route.val.path # <<>> =>
              route.val.path[Len(route.val.path)][1] = At(locals.prev, N - 1)

\* two predecessors of the last station tie
C6_Witness ==
    /\ Solved
    /\ Cardinality(Minimizers(N - 1)) >= 2

\* the lines of a kind in a report
LinesOf(r, kind) == SelectSeq(r.out, LAMBDA l : l.line = kind)

\* stations [A, B, C] with fares (0,1): 10.00, (1,2): 10.00, (0,2): 25.00
ExampleStations == SubSeq(StationNames, 1, 3)
ExampleTimes == [k \in 1..3 |-> <<DigitChar(k)>>]
ExampleFares ==
    Matrix(3, (<<0, 1>> :> Some(1000)) @@ (<<1, 2>> :> Some(1000)) @@ (<<0, 2>> :> Some(2500)))

\* C16: whenever a route exists and fare(0,n-1) is defined (any value >= 0),
\* analyze_tickets completes, never prints the 'more expensive' warning, and
\* reports the savings direct - min_cost with their share of the direct fare
\* in percent (to one decimal); savings of 0 are reported as the same price,
\* and savings of one cent in either way.  The example gives min_cost 20,00,
\* savings 5,00 and 20.0 %.
C16_SavingsReported ==
    /\ (Reported /\ ValidChainsTo(N - 1) # {} /\ ~IsNone(Fare(0, N - 1))) =>
          LET direct == Val(Fare(0, N - 1))
              savings == direct - CheapestTo(N - 1)
              shown == LinesOf(report, "savings")
          IN /\ report.kind = "return"
             /\ savings >= 0
             /\ LinesOf(report, "more_expensive") = <<>>
             /\ Len(shown) + Len(LinesOf(report, "same_price")) = 1
             /\ savings = 0 => shown = <<>>
             /\ savings >= 2 => Len(shown) = 1
             /\ \A k \in 1..Len(shown) :
                   /\ shown[k].amount = FormatCents(savings)
                   /\ 2 * (shown[k].percent * direct - 1000 * savings) <= direct
                   /\ 2 * (1000 * savings - shown[k].percent * direct) <= direct
    /\ \A b \in BOOLEAN :
          LET r == AnalyzeFrom(ExampleStations, ExampleTimes, ExampleFares, <<>>, b)
          IN /\ r.kind = "return"
             /\ LinesOf(r, "cheapest") =
                   <<[line |-> "cheapest", cost |-> <<"2", "0", ",", "0", "0">>]>>
             /\ LinesOf(r, "savings") =
                   <<[line |-> "savings", amount |-> <<"5", ",", "0", "0">>, percent |-> 200]>>

\* the single ticket from the first to the last station
DirectPath == <<(<<0, N - 1>>)>>

\* C17: whenever a route exists the report states 'buy a single direct
\* ticket' exactly when the optimal path is [(0, n-1)], and then lists no
\* ticket; otherwise it lists the segments of the path in travel order, each
\* with its stations and its fare from the matrix.  With only fare(0,n-1)
\* defined it states the single direct ticket.
C17_Recommendation ==
    (Reported /\ ValidChainsTo(N - 1) # {}) =>
        LET path == find_cheapest_route(stations, prices).val.path
        IN /\ "single_direct" \in LineKinds(report) <=> path = DirectPath
           /\ path = DirectPath => TicketLinesOf(report) = <<>>
           /\ path # DirectPath =>
                 /\ Len(LinesOf(report, "tickets_to_buy")) = 1
                 /\ TicketLinesOf(report) =
                       [k \in 1..Len(path) |->
                           [line |-> "ticket", nr |-> k,
                            from |-> At(stations, path[k][1]),
                            to |-> At(stations, path[k][2]),
                            price |-> FormatCents(Val(Fare(path[k][1], path[k][2])))]]
           /\ OnlyDirectFare => "single_direct" \in LineKinds(report)

\* p with its diagonal and lower triangle emptied
UpperOnly(p) ==
    [r \in 1..Len(p) |-> [c \in 1..Len(p[r]) |-> IF r < c THEN p[r][c] ELSE None]]

\* C15: for n >= 2 the result of find_cheapest_route and the report of
\* analyze_tickets on a matrix are those on the matrix with its diagonal and
\* lower triangle emptied; so two matrices that agree above the diagonal
\* give the same min_cost, path and report.
C15_LowerTriangleIgnored ==
    /\ Solved => route = find_cheapest_route(stations, UpperOnly(prices))
    /\ Reported =>
          \E b \in BOOLEAN :
              /\ report = AnalyzeFrom(stations, times, prices, <<>>, b)
              /\ report = AnalyzeFrom(stations, times, UpperOnly(prices), <<>>, b)

\* a route of several tickets on a matrix with fares on and below the diagonal
C15_Witness ==
    /\ Solved
    /\ Reported
    /\ N >= 3
    /\ \E pr \in Lower(N) : pr[1] > pr[2] /\ ~IsNone(Fare(pr[1], pr[2]))
    /\ ~IsNone(Fare(0, 0))
    /\ Len(route.val.path) >= 2

----------------------------------------------------------------------------
(* SpecParse: parse_tsv_file on artifacts                                  *)

\* every text of at most maxLen characters of the alphabet
AllTexts(alphabet, maxLen) == UNION {[1..k -> alphabet] : k \in 0..maxLen}

CellAlphabet == {"0", "1", "5", ",", ".", "?", " ", "-", "x"}
ExampleCells ==
    {<<"0", ",", "0", "0">>, <<"1", "2", ",", "5", "0">>, <<" ", "?", " ">>,
     <<"-", "5", ",", "0", "0">>, <<"1", ".", "5", ",", "0">>}
CellTexts == AllTexts(CellAlphabet, MaxCellLen) \cup ExampleCells

HeaderTexts == {<<>>, <<" ">>, <<"A">>, <<"B">>, <<" ", "A">>}

\* a header row: two metadata cells and up to MaxCols cells, or a short row
HeaderRows ==
    {<<(<<"d">>), (<<"T">>)>> \o cells :
        cells \in UNION {[1..k -> HeaderTexts] : k \in 0..MaxCols}}
    \cup {<<>>, <<(<<"d">>)>>}

\* the artifact write_tsv_file makes of a regular itinerary of n stations:
\* fare(i,j) = (i+1),(j+1)0 EUR
RegularMatrix(n) ==
    Matrix(n, [pr \in Upper(n) |-> Some(100 * (pr[1] + 1) + 10 * (pr[2] + 1))])
RegularRows(n) ==
    write_rows(<<"d">>, <<"T">>, SubSeq(StationNames, 1, n),
               [k \in 1..n |-> <<DigitChar(k)>>], RegularMatrix(n)).val

\* rows with the cell of payload column c in the row of station r replaced
WithCell(rows, r, c, text) ==
    [rows EXCEPT ![r + 3] =
        [k \in 1..(IF Len(@) > c + 3 THEN Len(@) ELSE c + 3) |->
            IF k = c + 3 THEN text ELSE IF k <= Len(@) THEN @[k] ELSE <<>>]]

\* artifacts with fewer than two rows
TooShortArtifact(rows) == rows = <<>> \/ \E row \in HeaderRows : rows = <<row>>

\* any two header rows over the fare rows of a regular artifact
HeaderArtifact(rows) ==
    \E tr \in HeaderRows, sr \in HeaderRows :
        rows = <<tr, sr>> \o SubSeq(RegularRows(MaxCols), 3, MaxCols + 2)

\* a regular artifact with one cell, anywhere in the grid, holding any text
CellArtifact(rows) ==
    \E n \in 1..MaxCols :
        \E pos \in (0..(n - 1)) \X (0..(n - 1)), text \in CellTexts :
            rows = WithCell(RegularRows(n), pos[1], pos[2], text)

\* a regular artifact with fare rows missing and rows cut short
RaggedArtifact(rows) ==
    \E n \in 1..MaxCols :
        \E cnt \in 0..n :
            \E cut \in [1..cnt -> 0..(n + 2)] :
                rows = SubSeq(RegularRows(n), 1, 2)
                       \o [k \in 1..cnt |-> SubSeq(RegularRows(n)[k + 2], 1, cut[k])]

\* texts no float literal holds once ',' is read as '.'
BadTexts ==
    {<<"x">>, <<"1", "x">>, <<"-">>, <<"1", ".", "5", ",", "0">>, <<"1", " ", "5">>,
     <<"1", "2", ",", "5", "0", "-">>}

\* a regular artifact whose direct-fare cell holds such a text, with fare rows
\* after the first missing and cut short
MixedArtifact(rows) ==
    \E n \in 2..MaxCols, text \in BadTexts :
        \E cnt \in 1..n :
            \E cut \in [2..cnt -> 0..(n + 2)] :
                LET base == WithCell(RegularRows(n), 0, n - 1, text)
                IN rows = SubSeq(base, 1, 3)
                          \o [k \in 1..(cnt - 1) |-> SubSeq(base[k + 3], 1, cut[k + 1])]

\* a regular artifact of n + 1 columns with the header cells of one column
\* blanked in both header rows
BlankColumnArtifact(rows) ==
    \E n \in 1..MaxCols :
        \E q \in 0..n, blank \in {<<>>, <<" ">>} :
            LET base == RegularRows(n + 1)
                blanked(row) == [row EXCEPT ![q + 3] = blank]
            IN rows = <<blanked(base[1]), blanked(base[2])>>
                      \o SubSeq(base, 3, Len(base))

InitParse ==
    /\ pc = "file"
    /\ \/ TooShortArtifact(artifact)
       \/ HeaderArtifact(artifact)
       \/ CellArtifact(artifact)
       \/ RaggedArtifact(artifact)
       \/ MixedArtifact(artifact)
       \/ BlankColumnArtifact(artifact)
    /\ parsed = NotYet
    /\ stations = <<>> /\ times = <<>> /\ prices = <<>>
    /\ route = NotYet /\ locals = NotYet /\ report = NotYet
    /\ argv = <<>> /\ log = <<>>
    /\ NoBrowser

\* parse_tsv_file on the rows of the file
CallParse ==
    /\ pc = "file"
    /\ parsed' = parse_rows(artifact)
    /\ pc' = "parsed"
    /\ UNCHANGED <<stations, times, prices, route, locals, report, artifact, batchVars, browserVars>>

NextParse == CallParse

SpecParse == InitParse /\ [][NextParse]_vars

----------------------------------------------------------------------------
(* SpecRoundTrip: write_tsv_file, then parse_tsv_file on the file written  *)

\* names and times as extract_stops_from_connection yields them: trimmed
NameTexts == {t \in AllTexts({"A", "B", " "}, MaxNameLen) : Strip(t) = t}
TimeTexts == {<<>>, <<"9">>}
\* fares of 0,00  0,05  1,50 and 12,50 EUR
SampleCents == {0, 5, 150, 1250}
SampleMatrices(n) ==
    {Matrix(n, f) : f \in [Upper(n) -> {None} \cup {Some(x) : x \in SampleCents}]}

InitRoundTrip ==
    /\ pc = "memory"
    /\ \E n \in 2..MaxCols :
          /\ stations \in [1..n -> NameTexts]
          /\ times \in [1..n -> TimeTexts]
          /\ prices \in SampleMatrices(n)
    /\ artifact = <<>>
    /\ parsed = NotYet
    /\ route = NotYet /\ locals = NotYet /\ report = NotYet
    /\ argv = <<>> /\ log = <<>>
    /\ NoBrowser

\* write_tsv_file; the artifact is what csv.reader yields of the file
CallWriteTsv ==
    /\ pc = "memory"
    /\ LET w == write_rows(<<"d">>, <<"T">>, stations, times, prices)
       IN IF w.kind = "return"
          THEN artifact' = CsvRead(CsvWrite(w.val)) /\ pc' = "file"
          ELSE artifact' = artifact /\ pc' = "write_failed"
    /\ UNCHANGED <<stations, times, prices, route, locals, report, parsed, batchVars, browserVars>>

NextRoundTrip == CallWriteTsv \/ CallParse

SpecRoundTrip == InitRoundTrip /\ [][NextRoundTrip]_vars

----------------------------------------------------------------------------
(* SpecBatch: main of find_cheapest_tickets.py over a list of paths        *)

\* the parsed matrix with its amounts in cents (amounts of two decimals)
CentsMatrix(p) ==
    [r \in 1..Len(p) |-> [c \in 1..Len(p[r]) |->
        IF IsNone(p[r][c]) THEN None ELSE Some(ToCents(Val(p[r][c])))]]

\* analyze_tickets(filepath), lines 102-153
analyze_tickets(file, oneCentAbove) ==
    LET banner == <<[line |-> "analyzing"]>>
        r == parse_tsv_file(file)
    IN IF r.kind = "raise"
       THEN Failed(banner, r.exc)
       ELSE AnalyzeFrom(r.val.stations, r.val.times, CentsMatrix(r.val.prices),
                        banner, oneCentAbove)

\* the file write_tsv_file makes of n stations with the fares f
ArtifactOf(n, f) ==
    FileOf(write_rows(<<"d">>, <<"T">>, SubSeq(StationNames, 1, n),
                      [k \in 1..n |-> <<DigitChar(k)>>], Matrix(n, f)).val)

\* the files the paths of a batch may name
SplitIsCheaper == ArtifactOf(3, (<<0, 1>> :> Some(1000)) @@ (<<1, 2>> :> Some(1000))
                                  @@ (<<0, 2>> :> Some(2500)))
DirectOnly == ArtifactOf(3, (<<0, 1>> :> None) @@ (<<1, 2>> :> None)
                              @@ (<<0, 2>> :> Some(1500)))
NoRoute == ArtifactOf(3, (<<0, 1>> :> Some(1000)) @@ (<<1, 2>> :> None)
                           @@ (<<0, 2>> :> None))
FreeDirect == ArtifactOf(2, (<<0, 1>> :> Some(0)))
OneStation == ArtifactOf(1, <<>>)
EmptyFile == FileOf(<<>>)

Files == {Unreadable, EmptyFile, SplitIsCheaper, DirectOnly, NoRoute, FreeDirect,
          OneStation}

\* fault variant of Caught: "except OSError"
CaughtOnlyOSError(exc) == exc \in {"FileNotFoundError"}

\* line 165, "except Exception": the exceptions the loop of main catches
Caught(exc) == exc \notin {"KeyboardInterrupt", "SystemExit", "GeneratorExit"}

InitBatch ==
    /\ pc = "main"
    /\ argv \in UNION {[1..k -> Files] : k \in 0..MaxFiles}
    /\ log = <<>>
    /\ stations = <<>> /\ times = <<>> /\ prices = <<>>
    /\ route = NotYet /\ locals = NotYet /\ report = NotYet
    /\ artifact = <<>> /\ parsed = NotYet
    /\ NoBrowser

\* lines 157-160: no path given
Usage ==
    /\ pc = "main"
    /\ Len(argv) < 1
    /\ pc' = "exit1"
    /\ UNCHANGED <<stations, times, prices, route, locals, report, fileVars, batchVars, browserVars>>

\* lines 162-168: one turn of the loop
ProcessPath ==
    /\ pc = "main"
    /\ Len(log) < Len(argv)
    /\ \E oneCentAbove \in BOOLEAN :
          LET r == analyze_tickets(argv[Len(log) + 1], oneCentAbove)
          IN IF r.kind = "raise" /\ ~Caught(r.exc)
             THEN /\ pc' = "crashed"
                  /\ log' = log
             ELSE /\ pc' = pc
                  /\ log' = Append(log, [path |-> Len(log) + 1, result |-> r,
                                         error_reported |-> r.kind = "raise"])
    /\ UNCHANGED <<stations, times, prices, route, locals, report, fileVars, argv, browserVars>>

\* line 170: the loop is over
Finish ==
    /\ pc = "main"
    /\ Len(argv) >= 1
    /\ Len(log) = Len(argv)
    /\ pc' = "done"
    /\ UNCHANGED <<stations, times, prices, route, locals, report, fileVars, batchVars, browserVars>>

NextBatch == Usage \/ ProcessPath \/ Finish

SpecBatch == InitBatch /\ [][NextBatch]_vars

----------------------------------------------------------------------------
(* scrape_bahn_prices.py: extract_stops_from_connection                    *)
(* segments_data is what page.evaluate returns: per train segment its      *)
(* trainId and its stops, a name and a time each.                          *)

Unknown_train == <<"U", "n", "k", "n", "o", "w", "n">>

\* line 328: the stop repeats the station added last
SameAsLast(acc, station) ==
    acc.stations # <<>> /\ station = acc.stations[Len(acc.stations)]

RECURSIVE FlattenSegment(_, _, _, _)
\* lines 325-333: the stops of one segment, from the k-th pair of the zip on
FlattenSegment(acc, segment, train_id, k) ==
    IF k > Len(segment.stations) \/ k > Len(segment.times) THEN acc
    ELSE FlattenSegment(
            IF SameAsLast(acc, segment.stations[k]) THEN acc
            ELSE [stations |-> Append(acc.stations, segment.stations[k]),
                  times |-> Append(acc.times, segment.times[k]),
                  train_ids |-> Append(acc.train_ids, train_id)],
            segment, train_id, k + 1)

RECURSIVE FlattenFrom(_, _, _, _)
\* lines 320-333: the segments from the s-th on
FlattenFrom(acc, segments_data, train_number, s) ==
    IF s > Len(segments_data) THEN acc
    ELSE LET segment == segments_data[s]
             \* segment['trainId'] or train_number
             train_id == IF IsNone(segment.trainId) \/ Val(segment.trainId) = <<>>
                         THEN train_number ELSE Val(segment.trainId)
         IN FlattenFrom(FlattenSegment(acc, segment, train_id, 1),
                        segments_data, train_number, s + 1)

\* lines 315-339: stations, times, train_ids
extract_stops(segments_data, train_number) ==
    FlattenFrom([stations |-> <<>>, times |-> <<>>, train_ids |-> <<>>],
                segments_data, train_number, 1)

Multiple == <<"M", "u", "l", "t", "i", "p", "l", "e">>

\* lines 610-614: the train cell of the header; the list of ids that follows
\* "Multiple" is left out
train_display(train_ids) ==
    LET unique_trains == {train_ids[k] : k \in 1..Len(train_ids)}
    IN IF Cardinality(unique_trains) = 1
       THEN CHOOSE t \in unique_trains : TRUE
       ELSE Multiple

----------------------------------------------------------------------------
(* SpecScrape: main of scrape_bahn_prices.py (lines 543-630), and          *)
(* parse_tsv_file on the file it wrote                                     *)

\* most train segments of a connection, and most stops of a segment
MaxSegments == 2
MaxStops == 2

Names == {<<"A">>, <<"B">>}

\* the s-th segment of a connection with the stops named by names
SegmentOf(s, names) ==
    [trainId |-> Some(<<"T", DigitChar(s)>>),
     stations |-> names,
     times |-> [k \in 1..Len(names) |-> <<DigitChar(s), DigitChar(k)>>]]

\* the fares bahn.de quotes: for every pair, for no pair, for neighbouring
\* stations only
Tariffs == {"all", "none", "adjacent"}

\* what get_ticket_price returns for the pair (i, j), in cents
Quote(tariff, i, j) ==
    IF tariff = "all" THEN Some(100 * (j - i) + 50)
    ELSE IF tariff = "adjacent" /\ j = i + 1 THEN Some(150)
    ELSE None

InitScrape ==
    /\ pc = "start"
    /\ args \in [connect : BOOLEAN]
    /\ \E tariff \in Tariffs, cnt \in 0..MaxSegments :
          \E names \in [1..cnt -> UNION {[1..k -> Names] : k \in 1..MaxStops}] :
              page = [segments |-> [s \in 1..cnt |-> SegmentOf(s, names[s])],
                      tariff |-> tariff]
    /\ context = NoContext
    /\ exit_code = NotYet
    /\ shutdown_flag = FALSE /\ signals = <<>>
    /\ stations = <<>> /\ times = <<>> /\ prices = <<>>
    /\ route = NotYet /\ locals = NotYet /\ report = NotYet
    /\ artifact = <<>> /\ parsed = NotYet
    /\ argv = <<>> /\ log = <<>>

scrapeFrame == <<route, report, parsed, batchVars, page, args, shutdown_flag, signals>>

\* lines 544-567: attach to the browser at localhost:9222; no context there
\* and any exception end main with 1
Connect ==
    /\ pc = "start"
    /\ args.connect
    /\ \E attached \in BOOLEAN :
          IF attached
          THEN /\ context' = [state |-> "open", launched |-> FALSE, closes |-> 0]
               /\ pc' = "search"
               /\ exit_code' = exit_code
          ELSE /\ context' = context
               /\ pc' = "returned_setup"
               /\ exit_code' = Ret(1)
    /\ UNCHANGED <<stations, times, prices, locals, artifact, scrapeFrame>>

\* lines 568-594: launch a browser of its own; launch_persistent_context or
\* new_page may raise
Launch ==
    /\ pc = "start"
    /\ ~args.connect
    /\ \E outcome \in {"launched", "launch_raises", "new_page_raises"} :
          /\ context' = IF outcome = "launch_raises" THEN context
                         ELSE [state |-> "open", launched |-> TRUE, closes |-> 0]
          /\ pc' = IF outcome = "launched" THEN "search" ELSE "returned_setup"
          /\ exit_code' = IF outcome = "launched" THEN exit_code ELSE Raise("Error")
    /\ UNCHANGED <<stations, times, prices, locals, artifact, scrapeFrame>>

\* lines 598-600: search_connection finds the connection, finds none, or
\* raises (goto, wait_for_selector, click)
Search ==
    /\ pc = "search"
    /\ \E outcome \in {"found", "not_found", "raises"} :
          /\ pc' = IF outcome = "found" THEN "extract" ELSE "finally"
          /\ exit_code' = IF outcome = "found" THEN exit_code
                           ELSE IF outcome = "not_found" THEN Ret(1)
                           ELSE Raise("Error")
    /\ UNCHANGED <<stations, times, prices, locals, artifact, context, scrapeFrame>>

\* n x n of None
EmptyMatrix(n) == [r \in 1..n |-> [c \in 1..n |-> None]]

\* lines 603-607 and 425-430: the stops are extracted (or the extraction
\* raises); fewer than 2 stations end main with 1
Extract ==
    /\ pc = "extract"
    /\ \E raises \in BOOLEAN :
          LET r == extract_stops(page.segments, Unknown_train)
              n == Len(r.stations)
          IN IF raises
             THEN /\ pc' = "finally" /\ exit_code' = Raise("Error")
                  /\ UNCHANGED <<stations, times, prices, locals>>
             ELSE /\ stations' = r.stations
                  /\ times' = r.times
                  /\ IF n < 2
                     THEN /\ pc' = "finally" /\ exit_code' = Ret(1)
                          /\ UNCHANGED <<prices, locals>>
                     ELSE /\ pc' = "matrix" /\ exit_code' = exit_code
                          /\ prices' = EmptyMatrix(n)
                          /\ locals' = [train_ids |-> r.train_ids,
                                         i |-> 0, j |-> 1,
                                         current_combination |-> 0,
                                         asked |-> <<>>]
    /\ UNCHANGED <<artifact, context, scrapeFrame>>

\* lines 439-440: (i, j) is the last pair of the loops
MatrixDone(i, j, n) == i + 2 >= n /\ j + 1 >= n

\* lines 439-452: one turn of the inner loop of create_price_matrix; the
\* search inside get_ticket_price may raise
Query ==
    /\ pc = "matrix"
    /\ \E raises \in BOOLEAN :
          LET i == locals.i
              j == locals.j
              n == Len(stations)
              asked == [locals EXCEPT !.current_combination = @ + 1,
                                      !.asked = Append(@, <<i, j>>)]
          IN IF raises
             THEN /\ pc' = "finally" /\ exit_code' = Raise("Error")
                  /\ locals' = asked
                  /\ prices' = prices
             ELSE /\ prices' = [prices EXCEPT ![i + 1][j + 1] = Quote(page.tariff, i, j)]
                  /\ exit_code' = exit_code
                  /\ IF MatrixDone(i, j, n)
                     THEN pc' = "write" /\ locals' = asked
                     ELSE /\ pc' = pc
                          /\ locals' = IF j + 1 < n
                                        THEN [asked EXCEPT !.j = j + 1]
                                        ELSE [asked EXCEPT !.i = i + 1, !.j = i + 2]
    /\ UNCHANGED <<stations, times, artifact, context, scrapeFrame>>

\* line 620: write_tsv_file writes the file, or open() raises
Write ==
    /\ pc = "write"
    /\ \E raises \in BOOLEAN :
          LET w == write_rows(<<"d">>, train_display(locals.train_ids),
                              stations, times, prices)
          IN IF raises \/ w.kind = "raise"
             THEN artifact' = artifact /\ exit_code' = Raise("Error")
             ELSE artifact' = CsvRead(CsvWrite(w.val)) /\ exit_code' = Ret(0)
    /\ pc' = "finally"
    /\ UNCHANGED <<stations, times, prices, locals, context, scrapeFrame>>

\* fault variant of ClosesContext: the context is closed in every mode
ClosesContextAlways(a) == TRUE

\* line 627: only a browser this process launched is closed
ClosesContext(a) == ~a.connect

\* lines 625-630: the finally block, then main returns or the exception
\* leaves it
Finally ==
    /\ pc = "finally"
    /\ context' = IF ClosesContext(args)
                   THEN [context EXCEPT !.state = "closed", !.closes = @ + 1]
                   ELSE context
    /\ pc' = "returned"
    /\ UNCHANGED <<stations, times, prices, locals, artifact, exit_code, scrapeFrame>>

\* find_cheapest_tickets.py reads the file the scraper wrote
ReadBack ==
    /\ pc = "returned"
    /\ exit_code = Ret(0)
    /\ parsed = NotYet
    /\ parsed' = parse_rows(artifact)
    /\ UNCHANGED <<pc, stations, times, prices, route, locals, report, artifact,
                   batchVars, browserVars>>

NextScrape ==
    Connect \/ Launch \/ Search \/ Extract \/ Query \/ Write \/ Finally \/ ReadBack

SpecScrape == InitScrape /\ [][NextScrape]_vars

----------------------------------------------------------------------------
(* SpecBrowser: debug_browser.py from the installation of the signal       *)
(* handlers (lines 107-108) to the end of main                             *)

\* most signals delivered to the process, and the count of keep-alive
\* sleeps beyond which the sleeps are no longer told apart
MaxSignals == 2
MaxPolls == 2

Signals == {"SIGINT", "SIGTERM"}

InitBrowser ==
    /\ pc = "start"
    /\ shutdown_flag = FALSE
    /\ signals = <<>>
    /\ context = NoContext
    /\ exit_code = NotYet
    /\ locals = [polls |-> 0]
    /\ page = NoPage /\ args = NoArgs
    /\ stations = <<>> /\ times = <<>> /\ prices = <<>>
    /\ route = NotYet /\ report = NotYet
    /\ artifact = <<>> /\ parsed = NotYet
    /\ argv = <<>> /\ log = <<>>

browserFrame == <<stations, times, prices, route, report, fileVars, batchVars, page, args>>

\* fault variant of signal_handler: the flag is left as it is
signal_handler_keeps(flag) == flag

\* lines 29-33: the value the handler gives shutdown_flag
signal_handler(flag) == TRUE

\* a SIGINT or SIGTERM is delivered while the process lives; Python runs the
\* handler in the main thread before main's next step.  Each delivery is
\* recorded with the number of sleeps completed before it.
Signal ==
    /\ pc # "returned"
    /\ Len(signals) < MaxSignals
    /\ \E sig \in Signals :
          signals' = Append(signals, [sig |-> sig, at |-> locals.polls])
    /\ shutdown_flag' = signal_handler(shutdown_flag)
    /\ UNCHANGED <<pc, context, exit_code, locals, browserFrame>>

\* lines 39-90: the extension is missing (return 1), the launch or the first
\* page raises (the exception leaves main), or the browser runs
StartBrowser ==
    /\ pc = "start"
    /\ \E outcome \in {"running", "no_extension", "raises"} :
          /\ context' = IF outcome = "running"
                         THEN [state |-> "open", launched |-> TRUE, closes |-> 0]
                         ELSE context
          /\ pc' = IF outcome = "running" THEN "loop" ELSE "returned"
          /\ exit_code' = IF outcome = "running" THEN exit_code
                           ELSE IF outcome = "no_extension" THEN Ret(1)
                           ELSE Raise("Error")
    /\ UNCHANGED <<shutdown_flag, signals, locals, browserFrame>>

\* line 94: while not shutdown_flag
LoopTest ==
    /\ pc = "loop"
    /\ pc' = IF shutdown_flag THEN "closing" ELSE "sleep"
    /\ UNCHANGED <<shutdown_flag, signals, context, exit_code, locals, browserFrame>>

\* line 95: await asyncio.sleep(1)
Sleep ==
    /\ pc = "sleep"
    /\ pc' = "loop"
    /\ locals' = [polls |-> IF locals.polls < MaxPolls THEN locals.polls + 1
                             ELSE locals.polls]
    /\ UNCHANGED <<shutdown_flag, signals, context, exit_code, browserFrame>>

\* lines 99-100: await context.close()
CloseContext ==
    /\ pc = "closing"
    /\ context' = [context EXCEPT !.state = "closed", !.closes = @ + 1]
    /\ pc' = "closed"
    /\ UNCHANGED <<shutdown_flag, signals, exit_code, locals, browserFrame>>

\* lines 102-103: return 0
ReturnZero ==
    /\ pc = "closed"
    /\ pc' = "returned"
    /\ exit_code' = Ret(0)
    /\ UNCHANGED <<shutdown_flag, signals, context, locals, browserFrame>>

\* the steps of main
MainStep == StartBrowser \/ LoopTest \/ Sleep \/ CloseContext \/ ReturnZero

NextBrowser ==
    Signal \/ StartBrowser \/ LoopTest \/ Sleep \/ CloseContext \/ ReturnZero

SpecBrowser == InitBrowser /\ [][NextBrowser]_vars

\* main keeps running: the event loop takes its next step whenever it has one
FairBrowser == SpecBrowser /\ WF_vars(MainStep)

----------------------------------------------------------------------------
(* Properties of the artifact reader and writer                            *)

\* C7: writing stations, times and fares with write_tsv_file and reading the
\* file back with parse_tsv_file returns the same station list, the same
\* time list and the same fare matrix (undefined cells as None, every
\* defined fare, 0,00 included, as the same amount).
C7_RoundTrip ==
    pc = "parsed" =>
        /\ parsed.kind = "return"
        /\ parsed.val.stations = stations
        /\ parsed.val.times = times
        /\ Len(parsed.val.prices) = Len(prices)
        /\ \A i \in 1..Len(prices) :
              /\ Len(parsed.val.prices[i]) = Len(prices[i])
              /\ \A j \in 1..Len(prices[i]) :
                    parsed.val.prices[i][j] =
                       (IF IsNone(prices[i][j]) THEN None
                        ELSE Some(FromCents(Val(prices[i][j]))))

\* C9: an artifact of 0 or 1 rows makes parse_tsv_file fail: it raises and
\* returns no station list, time list or matrix.
C9_TooFewRowsFails ==
    (pc = "parsed" /\ Len(artifact) < 2) => parsed.kind = "raise"

\* a file of one well-formed header row
C9_Witness ==
    /\ pc = "parsed"
    /\ Len(artifact) = 1
    /\ Len(artifact[1]) > 2
    /\ parsed.kind = "raise"

\* the text of the fare cell (i, j), when the artifact has one
HasFareCell(i, j) == i + 2 < Len(artifact) /\ 2 + j < Len(At(artifact, i + 2))
FareCell(i, j) == At(At(artifact, i + 2), 2 + j)

RECURSIVE FractionOf(_)
\* numerator of the fraction 0.d1d2...dk over 10^k
FractionOf(ds) ==
    IF ds = <<>> THEN 0
    ELSE DigitValue(Head(ds)) * Pow10(Len(ds) - 1) + FractionOf(Tail(ds))

\* a text [-]digits[,digits] or [-]digits[.digits] with a digit on each side
\* of the separator, read as a decimal numeral
IsNumeral(t) ==
    LET body == IF t # <<>> /\ Head(t) = "-" THEN Tail(t) ELSE t
        seps == {k \in 1..Len(body) : body[k] \in {",", "."}}
    IN /\ body # <<>>
       /\ \A k \in 1..Len(body) : body[k] \in DigitChars \cup {",", "."}
       /\ Cardinality(seps) <= 1
       /\ \A k \in seps : 1 < k /\ k < Len(body)
NumeralValue(t) ==
    LET neg == Head(t) = "-"
        body == IF neg THEN Tail(t) ELSE t
        seps == {k \in 1..Len(body) : body[k] \in {",", "."}}
        cut == IF seps = {} THEN Len(body) + 1 ELSE CHOOSE k \in seps : TRUE
        whole == NatOf(SubSeq(body, 1, cut - 1))
        frac == SubSeq(body, cut + 1, Len(body))
        mag == whole * Pow10(Len(frac)) + FractionOf(frac)
    IN Decimal(IF neg THEN -mag ELSE mag, Len(frac))

Blank == <<>>
Unknown == <<"?">>
ZeroPlaceholder == <<"0">>

\* C10: a fare cell holding '?', '0' or nothing is ingested as None, never as
\* a number or an error; any other numeral (0,00 or 12,50 for example) is
\* ingested as the number it denotes once ',' is read as '.'.
C10_PlaceholdersAreNoFare ==
    (pc = "parsed" /\ Len(artifact) >= 2) =>
        /\ parsed.kind = "return"
        /\ \A i \in 0..(Len(parsed.val.stations) - 1) :
           \A j \in i..(Len(parsed.val.stations) - 1) :
              HasFareCell(i, j) =>
                 LET t == Strip(FareCell(i, j))
                     got == At(At(parsed.val.prices, i), j)
                 IN /\ t \in {Blank, Unknown, ZeroPlaceholder} => got = None
                    /\ (IsNumeral(t) /\ t # ZeroPlaceholder) => got = Some(NumeralValue(t))
                    /\ t = <<"0", ",", "0", "0">> => got = Some([m |-> 0, k |-> 0])
                    /\ t = <<"1", "2", ",", "5", "0">> => got = Some([m |-> 125, k |-> 1])

\* a row holding the zero placeholder on the diagonal, a 0,00 fare and '?'
C10_Witness ==
    /\ pc = "parsed"
    /\ parsed.kind = "return"
    /\ Len(parsed.val.stations) = 2
    /\ HasFareCell(0, 0) /\ FareCell(0, 0) = ZeroPlaceholder
    /\ HasFareCell(0, 1) /\ FareCell(0, 1) = <<"0", ",", "0", "0">>
    /\ At(At(parsed.val.prices, 0), 1) = Some([m |-> 0, k |-> 0])
    /\ At(At(parsed.val.prices, 0), 0) = None

\* the characters of a decimal numeral with ',' or '.' as its separator
NumberChars == DigitChars \cup {",", ".", "-", "+"}

\* a text that denotes no number: it holds a character no numeral holds, or
\* no digit, or two separators, or a sign after its first character
NonNumericText(t) ==
    /\ t # <<>>
    /\ \/ \E k \in 1..Len(t) : t[k] \notin NumberChars
       \/ \A k \in 1..Len(t) : t[k] \notin DigitChars
       \/ Cardinality({k \in 1..Len(t) : t[k] \in {",", "."}}) >= 2
       \/ \E k \in 2..Len(t) : t[k] \in {"-", "+"}

StationCells == From2(At(artifact, 1))
TimeCells == From2(At(artifact, 0))
NamedColumns == Ascending({c \in 0..(Len(StationCells) - 1) : Strip(At(StationCells, c)) # <<>>})
\* the column of the k-th station of the returned list
ColumnOf(k) == At(NamedColumns, k)
\* the fare the artifact holds in the row of column r for the column c
FareAt(r, c) ==
    IF r + 2 < Len(artifact) /\ 2 + c < Len(At(artifact, r + 2))
    THEN ParseCell(At(At(artifact, r + 2), 2 + c))
    ELSE None

\* C12: after a successful parse the time list is as long as the station
\* list and holds, at each index, the time of that station's column; the
\* matrix is n x n; and cell (i, j), i <= j, is the fare the artifact holds in
\* the row of station i for the column of station j, whatever the header
\* cells hold.
C12_HeaderAlignment ==
    (pc = "parsed" /\ parsed.kind = "return") =>
        LET n == Len(parsed.val.stations)
        IN /\ Len(parsed.val.times) = n
           /\ \A k \in 0..(n - 1) :
                 /\ ColumnOf(k) < Len(TimeCells)
                 /\ k < Len(parsed.val.times)
                 /\ At(parsed.val.times, k) = Strip(At(TimeCells, ColumnOf(k)))
           /\ Len(parsed.val.prices) = n
           /\ \A i \in 0..(n - 1) :
                 /\ Len(At(parsed.val.prices, i)) = n
                 /\ \A j \in i..(n - 1) :
                       At(At(parsed.val.prices, i), j) = FareAt(ColumnOf(i), ColumnOf(j))

\* C13: no cell of the matrix parse_tsv_file returns holds a value below 0;
\* a cell whose text denotes a negative number is not a populated fare.
C13_FaresNonNegative ==
    (pc = "parsed" /\ parsed.kind = "return") =>
        LET n == Len(parsed.val.stations)
        IN \A i \in 0..(n - 1), j \in 0..(n - 1) :
              LET got == At(At(parsed.val.prices, i), j)
              IN /\ ~IsNone(got) => Val(got).m >= 0
                 /\ (/\ j >= i
                     /\ HasFareCell(i, j)
                     /\ IsNumeral(Strip(FareCell(i, j)))
                     /\ NumeralValue(Strip(FareCell(i, j))).m < 0) => IsNone(got)

\* no element of s occurs at two indices
Distinct(s) == \A a \in 1..Len(s), b \in 1..Len(s) : a # b => s[a] # s[b]

\* C14: the station list extract_stops_from_connection makes of the train
\* segments, and the station list parse_tsv_file returns, hold no station
\* name at two different indices.
C14_StationsPairwiseDistinct ==
    /\ Distinct(stations)
    /\ parsed.kind = "return" => Distinct(parsed.val.stations)

----------------------------------------------------------------------------
(* Properties of the browser programs                                      *)

\* main of debug_browser.py left the keep-alive loop
LoopLeft == pc \in {"closing", "closed"} \/ (pc = "returned" /\ context.state # "none")

InSteps == pc \in {"search", "extract", "matrix", "write"}
\* the TSV file was written
Written == artifact # <<>>

----------------------------------------------------------------------------
(* Properties of the batch run                                             *)

\* C8: every path is analysed exactly once, in argument order; a failure on
\* one path is caught and reported for that path and the next path is
\* processed; no failure ends the batch, and the outcome for a path is that
\* of analysing its file alone.
C8_BatchSurvivesFailures ==
    /\ pc # "crashed"
    /\ Len(log) <= Len(argv)
    /\ \A k \in 1..Len(log) :
          /\ log[k].path = k
          /\ log[k].result \in {analyze_tickets(argv[k], b) : b \in BOOLEAN}
          /\ log[k].error_reported <=> log[k].result.kind = "raise"
    /\ pc = "done" => Len(log) = Len(argv)

\* a batch whose first file fails and whose second file is analysed
C8_Witness ==
    /\ pc = "done"
    /\ Len(argv) >= 2
    /\ log[1].result.kind = "raise"
    /\ log[1].result.exc = "IndexError"
    /\ log[2].result.kind = "return"

====
